---- MODULE Spec2Model ----
(***************************************************************************)
(* xdg-perm: a command-line client of the desktop permission store.        *)
(* One invocation of main (src/src/main.rs): connect to the session bus,   *)
(* build the proxy, read and compare the `version` property, parse the     *)
(* command line, issue the one remote call of the command, render.         *)
(* Every `.await` of main is a suspension point: the call is issued in one *)
(* step and its result handled in the next.                                *)
(***************************************************************************)
EXTENDS Integers, Sequences, FiniteSets, TLC

VARIABLES
    argv,            \* the command-line tokens after the program name
    pc,              \* the position of main
    connection,      \* "none" | "open": Connection::session()'s result
    proxy,           \* TRUE once PermissionStoreProxy::new succeeded
    server_version,  \* the u32 read from the `version` property, or NoVersion
    cli,             \* the parsed command (Cli::parse), or NoCli
    calls,           \* every remote operation issued so far, in order
    reply,           \* the result of the dispatched call, or NoReply
    iter_order,      \* the order in which the reply's HashMap iterates
    stdout,          \* what println! wrote, in order
    stderr,          \* what eprintln! (or clap) wrote, in order
    exit_status      \* -1 while running, then the process's exit status

vars == <<argv, pc, connection, proxy, server_version, cli, calls, reply,
          iter_order, stdout, stderr, exit_status>>

\* ------------------------------------------------------------------ bounds

\* longest permission list on the command line or in a reply
MaxPerms == 2
\* longest resource-ID list in a `list` reply
MaxIds == 2

\* ------------------------------------------------------------- value sets

PERMISSION_STORE_SPEC_VER == 2

Tables == {"documents"}
Ids == {"doc1", "doc2"}
Apps == {"org.app.A", "org.app.B"}
Perms == {"read", "write"}
\* the u32 values the service may report (the version is only compared,
\* never computed with, so the sample stays within TLC's 32-bit integers)
Versions == {0, 1, PERMISSION_STORE_SPEC_VER, 3, 2147483647}
\* the zbus::Error of a failed operation, as displayed
Errs == {"ServiceUnknown", "NoReply"}
\* the associated data of a resource: a variant, tag and payload text
Datas == {[tag |-> "U8", text |-> "0"], [tag |-> "Bool", text |-> "true"]}

SeqsUpTo(S, n) == UNION {[1..k -> S] : k \in 0..n}
PermSeqs == SeqsUpTo(Perms, MaxPerms)
IdSeqs == SeqsUpTo(Ids, MaxIds)
\* HashMap<String, Vec<String>>: a function from some applications
LookupMaps == UNION {[S -> PermSeqs] : S \in SUBSET Apps}
Range(s) == {s[i] : i \in 1..Len(s)}
\* the orders in which a HashMap with key set S may iterate
Orders(S) == {o \in [1..Cardinality(S) -> S] : Range(o) = S}

NoVersion == -1
NoCli == [cmd |-> "none", table |-> "", id |-> "", app |-> <<>>,
          create |-> FALSE, permissions |-> <<>>]
NoReply == [status |-> "none", value |-> <<>>]

\* -------------------------------------------------------- the command line

CreateFlags == {"-c", "--create"}
DisplayFlags == {"-h", "--help", "-V", "--version"}
Commands == {"delete", "get", "list", "lookup", "set"}
FlagChoices == {<<>>, <<"-c">>, <<"--create">>}

Argvs ==
    {<<"delete", t, i>> : t \in Tables, i \in {"doc1"}}
    \cup {<<"delete", t, i, a>> : t \in Tables, i \in {"doc1"}, a \in Apps}
    \cup {<<"get", t, i, a>> : t \in Tables, i \in {"doc1"}, a \in Apps}
    \cup {<<"list", t>> : t \in Tables}
    \cup {<<"lookup", t, i>> : t \in Tables, i \in {"doc1"}}
    \cup {<<"set">> \o pre \o <<t, "doc1", a>> \o p \o post :
            pre \in FlagChoices, post \in FlagChoices,
            t \in Tables, a \in {"org.app.A"}, p \in PermSeqs}
    \cup {<<>>, <<"--help">>, <<"list", "--version">>, <<"frobnicate">>,
          <<"list">>, <<"get", "documents", "doc1">>,
          <<"list", "documents", "-c">>, <<"lookup", "documents">>,
          <<"delete", "documents">>, <<"set", "documents", "doc1">>}

Usage(msg) == [kind |-> "usage", msg |-> msg, cmd |-> NoCli]
Display == [kind |-> "display", msg |-> "", cmd |-> NoCli]
Parsed(c) == [kind |-> "ok", msg |-> "", cmd |-> c]

IsCreateFlag(tok) == tok \in CreateFlags
IsPositional(tok) == tok \notin CreateFlags \cup DisplayFlags

\* #[derive(Args)] of the five argument structs: positionals in declaration
\* order, `app` of Delete optional, `permissions` of Set the 0..N rest,
\* `create` of Set a flag that defaults to false
ParseArgs(name, rest) ==
    LET flags == SelectSeq(rest, IsCreateFlag)
        pos == SelectSeq(rest, IsPositional)
        n == Len(pos)
    IN  CASE name = "delete" ->
                IF Len(flags) > 0 THEN Usage("unexpected argument")
                ELSE IF n < 2 THEN Usage("missing required argument")
                ELSE IF n > 3 THEN Usage("unexpected argument")
                ELSE Parsed([cmd |-> "delete", table |-> pos[1], id |-> pos[2],
                             app |-> SubSeq(pos, 3, n),
                             create |-> FALSE, permissions |-> <<>>])
          [] name = "get" ->
                IF Len(flags) > 0 THEN Usage("unexpected argument")
                ELSE IF n < 3 THEN Usage("missing required argument")
                ELSE IF n > 3 THEN Usage("unexpected argument")
                ELSE Parsed([cmd |-> "get", table |-> pos[1], id |-> pos[2],
                             app |-> <<pos[3]>>,
                             create |-> FALSE, permissions |-> <<>>])
          [] name = "list" ->
                IF Len(flags) > 0 THEN Usage("unexpected argument")
                ELSE IF n < 1 THEN Usage("missing required argument")
                ELSE IF n > 1 THEN Usage("unexpected argument")
                ELSE Parsed([cmd |-> "list", table |-> pos[1], id |-> "",
                             app |-> <<>>,
                             create |-> FALSE, permissions |-> <<>>])
          [] name = "lookup" ->
                IF Len(flags) > 0 THEN Usage("unexpected argument")
                ELSE IF n < 2 THEN Usage("missing required argument")
                ELSE IF n > 2 THEN Usage("unexpected argument")
                ELSE Parsed([cmd |-> "lookup", table |-> pos[1], id |-> pos[2],
                             app |-> <<>>,
                             create |-> FALSE, permissions |-> <<>>])
          [] OTHER ->
                IF Len(flags) > 1 THEN Usage("argument used multiple times")
                ELSE IF n < 3 THEN Usage("missing required argument")
                ELSE Parsed([cmd |-> "set", table |-> pos[1], id |-> pos[2],
                             app |-> <<pos[3]>>,
                             create |-> Len(flags) = 1,
                             permissions |-> SubSeq(pos, 4, n)])

\* Cli::parse(): the subcommand is required; a help or version flag displays
\* and exits; anything malformed is a usage error
Parse(args) ==
    IF args = <<>> THEN Usage("missing subcommand")
    ELSE IF Head(args) \in DisplayFlags THEN Display
    ELSE IF Head(args) \notin Commands THEN Usage("unrecognized subcommand")
    ELSE IF \E i \in 2..Len(args) : args[i] \in DisplayFlags THEN Display
    ELSE ParseArgs(Head(args), Tail(args))

\* ------------------------------------------------------------------ output

Table(header, rows) ==
    [kind |-> "table", header |-> header, rows |-> rows, text |-> ""]
Line(text) ==
    [kind |-> "line", header |-> <<>>, rows |-> <<>>, text |-> text]

\* Vec<String>::join(sep)
RECURSIVE join(_, _)
join(allowed, sep) ==
    IF allowed = <<>> THEN ""
    ELSE IF Len(allowed) = 1 THEN allowed[1]
    ELSE allowed[1] \o sep \o join(Tail(allowed), sep)

\* {:?} of an OwnedValue: the derived Debug of the wrapper and of the variant
DebugForm(data) == "OwnedValue(" \o data.tag \o "(" \o data.text \o "))"

\* a renderer that leaves out the applications holding no permission
print_lookup_response_skip_empty(response, order) ==
    LET kept == SelectSeq(order, LAMBDA a : response[1][a] # <<>>)
    IN  << Table(<<"AppID", "Permissions">>,
                 [i \in 1..Len(kept) |->
                    <<kept[i], join(response[1][kept[i]], ",")>>]),
           Line("associated data:"),
           Line(DebugForm(response[2])) >>

\* response = <<mapping, data>>; order = the order response.0.iter() yields
print_lookup_response(response, order) ==
    << Table(<<"AppID", "Permissions">>,
             [i \in 1..Len(order) |->
                <<order[i], join(response[1][order[i]], ",")>>]),
       Line("associated data:"),
       Line(DebugForm(response[2])) >>

\* a renderer that shows each resource ID once
RECURSIVE Dedup(_)
Dedup(s) ==
    IF s = <<>> THEN <<>>
    ELSE LET front == Dedup(SubSeq(s, 1, Len(s) - 1))
         IN  IF s[Len(s)] \in Range(front) THEN front
             ELSE Append(front, s[Len(s)])
print_list_response_dedup(response) ==
    << Table(<<"Resource ID">>,
             [i \in 1..Len(Dedup(response)) |-> <<Dedup(response)[i]>>]) >>

print_list_response(response) ==
    << Table(<<"Resource ID">>, [i \in 1..Len(response) |-> <<response[i]>>]) >>

print_get_permission_response(response) ==
    << Table(<<"Permission">>, [i \in 1..Len(response) |-> <<response[i]>>]) >>

\* ------------------------------------------------------------------- main

Op(method, args) == [method |-> method, args |-> args]

\* a helper that ignores the application argument
delete_permission_whole(args) == Op("delete", <<args.table, args.id>>)

\* the helper delete_permission: which of the two remote deletes to call
delete_permission(args) ==
    IF args.app # <<>>
    THEN Op("delete_permission", <<args.table, args.id, args.app[1]>>)
    ELSE Op("delete", <<args.table, args.id>>)

Ok(v) == [status |-> "ok", value |-> v]
Err(e) == [status |-> "err", value |-> e]

Init ==
    /\ argv \in Argvs
    /\ pc = "start"
    /\ connection = "none"
    /\ proxy = FALSE
    /\ server_version = NoVersion
    /\ cli = NoCli
    /\ calls = <<>>
    /\ reply = NoReply
    /\ iter_order = <<>>
    /\ stdout = <<>>
    /\ stderr = <<>>
    /\ exit_status = -1

\* main returns: the process ends with the status of a returning main
Return(out, err) ==
    /\ stdout' = stdout \o out
    /\ stderr' = stderr \o err
    /\ pc' = "done"
    /\ exit_status' = 0

\* an operation is issued on the bus and main suspends at `to`
Issue(op, to) ==
    /\ calls' = Append(calls, op)
    /\ pc' = to

ConnectCall ==
    /\ pc = "start"
    /\ Issue(Op("Connection::session", <<>>), "await_connect")
    /\ UNCHANGED <<argv, connection, proxy, server_version, cli, reply,
                   iter_order, stdout, stderr, exit_status>>

ConnectOk ==
    /\ pc = "await_connect"
    /\ connection' = "open"
    /\ pc' = "proxy"
    /\ UNCHANGED <<argv, proxy, server_version, cli, calls, reply,
                   iter_order, stdout, stderr, exit_status>>

\* the Err arm without its `return`
ConnectErr_noreturn ==
    /\ pc = "await_connect"
    /\ \E e \in Errs : stderr' = Append(stderr, "Failed to connect: " \o e)
    /\ pc' = "proxy"
    /\ UNCHANGED <<argv, connection, proxy, server_version, cli, calls, reply,
                   iter_order, stdout, exit_status>>

ConnectErr ==
    /\ pc = "await_connect"
    /\ \E e \in Errs : Return(<<>>, <<"Failed to connect: " \o e>>)
    /\ UNCHANGED <<argv, connection, proxy, server_version, cli, calls, reply,
                   iter_order>>

ProxyCall ==
    /\ pc = "proxy"
    /\ Issue(Op("PermissionStoreProxy::new", <<>>), "await_proxy")
    /\ UNCHANGED <<argv, connection, proxy, server_version, cli, reply,
                   iter_order, stdout, stderr, exit_status>>

ProxyOk ==
    /\ pc = "await_proxy"
    /\ proxy' = TRUE
    /\ pc' = "version"
    /\ UNCHANGED <<argv, connection, server_version, cli, calls, reply,
                   iter_order, stdout, stderr, exit_status>>

ProxyErr ==
    /\ pc = "await_proxy"
    /\ \E e \in Errs : Return(<<>>, <<"Failed to create proxy: " \o e>>)
    /\ UNCHANGED <<argv, connection, proxy, server_version, cli, calls, reply,
                   iter_order>>

VersionCall ==
    /\ pc = "version"
    /\ Issue(Op("version", <<>>), "await_version")
    /\ UNCHANGED <<argv, connection, proxy, server_version, cli, reply,
                   iter_order, stdout, stderr, exit_status>>

VersionOk ==
    /\ pc = "await_version"
    /\ \E v \in Versions : server_version' = v
    /\ pc' = "gate"
    /\ UNCHANGED <<argv, connection, proxy, cli, calls, reply,
                   iter_order, stdout, stderr, exit_status>>

VersionErr ==
    /\ pc = "await_version"
    /\ \E e \in Errs : Return(<<>>, <<"Failed to get server version: " \o e>>)
    /\ UNCHANGED <<argv, connection, proxy, server_version, cli, calls, reply,
                   iter_order>>

\* a gate that accepts any version from the expected one on
VersionMatches_atleast(v) == v >= PERMISSION_STORE_SPEC_VER

\* the comparison of the version read with the one version understood
VersionMatches(v) == v = PERMISSION_STORE_SPEC_VER

MismatchMessage(v) ==
    "Server version " \o ToString(v) \o " does not match expected version "
        \o ToString(PERMISSION_STORE_SPEC_VER)

GateMismatch ==
    /\ pc = "gate"
    /\ ~VersionMatches(server_version)
    /\ Return(<<>>, <<MismatchMessage(server_version)>>)
    /\ UNCHANGED <<argv, connection, proxy, server_version, cli, calls, reply,
                   iter_order>>

GatePass ==
    /\ pc = "gate"
    /\ VersionMatches(server_version)
    /\ pc' = "parse"
    /\ UNCHANGED <<argv, connection, proxy, server_version, cli, calls, reply,
                   iter_order, stdout, stderr, exit_status>>

\* Cli::parse(): a usage error is reported on stderr and ends the process
\* with status 2; help and version text go to stdout and end it with 0
ParseOk ==
    /\ pc = "parse"
    /\ Parse(argv).kind = "ok"
    /\ cli' = Parse(argv).cmd
    /\ pc' = "dispatch"
    /\ UNCHANGED <<argv, connection, proxy, server_version, calls, reply,
                   iter_order, stdout, stderr, exit_status>>

ParseUsage ==
    /\ pc = "parse"
    /\ Parse(argv).kind = "usage"
    /\ stderr' = Append(stderr, "error: " \o Parse(argv).msg)
    /\ pc' = "done"
    /\ exit_status' = 2
    /\ UNCHANGED <<argv, connection, proxy, server_version, cli, calls, reply,
                   iter_order, stdout>>

ParseDisplay ==
    /\ pc = "parse"
    /\ Parse(argv).kind = "display"
    /\ stdout' = Append(stdout, [kind |-> "usage", header |-> <<>>,
                                 rows |-> <<>>, text |-> "Usage: xdg-perm"])
    /\ pc' = "done"
    /\ exit_status' = 0
    /\ UNCHANGED <<argv, connection, proxy, server_version, cli, calls, reply,
                   iter_order, stderr>>

\* the remote call of each arm of `match &cli.command`
GetOp(args) == Op("get_permission", <<args.table, args.id, args.app[1]>>)
ListOp(args) == Op("list", <<args.table>>)
LookupOp(args) == Op("lookup", <<args.table, args.id>>)
SetOp_always_create(args) ==
    Op("set_permission",
       <<args.table, TRUE, args.id, args.app[1], args.permissions>>)
SetOp(args) ==
    Op("set_permission",
       <<args.table, args.create, args.id, args.app[1], args.permissions>>)

DeleteCall ==
    /\ pc = "dispatch"
    /\ cli.cmd = "delete"
    /\ Issue(delete_permission(cli), "await_call")
    /\ UNCHANGED <<argv, connection, proxy, server_version, cli, reply,
                   iter_order, stdout, stderr, exit_status>>

GetCall ==
    /\ pc = "dispatch"
    /\ cli.cmd = "get"
    /\ Issue(GetOp(cli), "await_call")
    /\ UNCHANGED <<argv, connection, proxy, server_version, cli, reply,
                   iter_order, stdout, stderr, exit_status>>

ListCall ==
    /\ pc = "dispatch"
    /\ cli.cmd = "list"
    /\ Issue(ListOp(cli), "await_call")
    /\ UNCHANGED <<argv, connection, proxy, server_version, cli, reply,
                   iter_order, stdout, stderr, exit_status>>

LookupCall ==
    /\ pc = "dispatch"
    /\ cli.cmd = "lookup"
    /\ Issue(LookupOp(cli), "await_call")
    /\ UNCHANGED <<argv, connection, proxy, server_version, cli, reply,
                   iter_order, stdout, stderr, exit_status>>

SetCall ==
    /\ pc = "dispatch"
    /\ cli.cmd = "set"
    /\ Issue(SetOp(cli), "await_call")
    /\ UNCHANGED <<argv, connection, proxy, server_version, cli, reply,
                   iter_order, stdout, stderr, exit_status>>

\* what each arm does with Ok(..)
OnOk(cmd, value, order) ==
    CASE cmd = "delete" -> <<Line("Permissions deleted successfully")>>
      [] cmd = "get" -> print_get_permission_response(value)
      [] cmd = "list" -> print_list_response(value)
      [] cmd = "lookup" -> print_lookup_response(value, order)
      [] OTHER -> <<Line("Permissions set successfully")>>

\* arms that swallow the error
OnErr_silent(cmd, e) == <<>>

\* what each arm does with Err(e)
OnErr(cmd, e) ==
    CASE cmd = "delete" -> <<"failed to delete permissions: " \o e>>
      [] cmd = "get" -> <<"failed to get permissions: " \o e>>
      [] cmd = "list" -> <<"failed to list permissions: " \o e>>
      [] cmd = "lookup" -> <<"failed to lookup permissions: " \o e>>
      [] OTHER -> <<"failed to set permissions: " \o e>>

DeleteOk ==
    /\ pc = "await_call"
    /\ cli.cmd = "delete"
    /\ reply' = Ok(<<>>)
    /\ Return(OnOk("delete", <<>>, <<>>), <<>>)
    /\ UNCHANGED <<argv, connection, proxy, server_version, cli, calls,
                   iter_order>>

GetOk ==
    /\ pc = "await_call"
    /\ cli.cmd = "get"
    /\ \E permissions \in PermSeqs :
         /\ reply' = Ok(permissions)
         /\ Return(OnOk("get", permissions, <<>>), <<>>)
    /\ UNCHANGED <<argv, connection, proxy, server_version, cli, calls,
                   iter_order>>

ListOk ==
    /\ pc = "await_call"
    /\ cli.cmd = "list"
    /\ \E ids \in IdSeqs :
         /\ reply' = Ok(ids)
         /\ Return(OnOk("list", ids, <<>>), <<>>)
    /\ UNCHANGED <<argv, connection, proxy, server_version, cli, calls,
                   iter_order>>

\* the reply is decoded into a fresh HashMap, whose iteration order is fixed
\* by its own hasher state and not by the reply
LookupOk ==
    /\ pc = "await_call"
    /\ cli.cmd = "lookup"
    /\ \E m \in LookupMaps, d \in Datas :
         \E order \in Orders(DOMAIN m) :
            /\ reply' = Ok(<<m, d>>)
            /\ iter_order' = order
            /\ Return(OnOk("lookup", <<m, d>>, order), <<>>)
    /\ UNCHANGED <<argv, connection, proxy, server_version, cli, calls>>

SetOk ==
    /\ pc = "await_call"
    /\ cli.cmd = "set"
    /\ reply' = Ok(<<>>)
    /\ Return(OnOk("set", <<>>, <<>>), <<>>)
    /\ UNCHANGED <<argv, connection, proxy, server_version, cli, calls,
                   iter_order>>

\* a failed call that is issued again
CallErr_retry ==
    /\ pc = "await_call"
    /\ \E e \in Errs : reply' = Err(e)
    /\ pc' = "dispatch"
    /\ UNCHANGED <<argv, connection, proxy, server_version, cli, calls,
                   iter_order, stdout, stderr, exit_status>>

\* Err(e) of the dispatched call, in whichever arm
CallErr ==
    /\ pc = "await_call"
    /\ \E e \in Errs :
         /\ reply' = Err(e)
         /\ Return(<<>>, OnErr(cli.cmd, e))
    /\ UNCHANGED <<argv, connection, proxy, server_version, cli, calls,
                   iter_order>>

Next ==
    \/ ConnectCall
    \/ ConnectOk
    \/ ConnectErr
    \/ ProxyCall
    \/ ProxyOk
    \/ ProxyErr
    \/ VersionCall
    \/ VersionOk
    \/ VersionErr
    \/ GateMismatch
    \/ GatePass
    \/ ParseOk
    \/ ParseUsage
    \/ ParseDisplay
    \/ DeleteCall
    \/ GetCall
    \/ ListCall
    \/ LookupCall
    \/ SetCall
    \/ DeleteOk
    \/ GetOk
    \/ ListOk
    \/ LookupOk
    \/ SetOk
    \/ CallErr

Spec == Init /\ [][Next]_vars

\* ------------------------------------------- the renderers, applied twice

\* a successful reply of each of the three shapes that are rendered
RenderInit ==
    /\ argv = <<>>
    /\ pc = "render"
    /\ connection = "open"
    /\ proxy = TRUE
    /\ server_version = PERMISSION_STORE_SPEC_VER
    /\ \E c \in {"get", "list", "lookup"} :
         /\ cli = [NoCli EXCEPT !.cmd = c]
         /\ reply \in CASE c = "get" -> {Ok(v) : v \in PermSeqs}
                        [] c = "list" -> {Ok(v) : v \in IdSeqs}
                        [] OTHER -> {Ok(<<m, d>>) : m \in LookupMaps, d \in Datas}
    /\ calls = <<>>
    /\ iter_order = <<>>
    /\ stdout = <<>>
    /\ stderr = <<>>
    /\ exit_status = -1

\* one rendering of the reply; a lookup result is held in a HashMap of its
\* own each time it is received, with that map's iteration order
Render(from, to) ==
    /\ pc = from
    /\ \E order \in IF cli.cmd = "lookup" THEN Orders(DOMAIN reply.value[1])
                    ELSE {<<>>} :
         /\ iter_order' = order
         /\ stdout' = stdout \o OnOk(cli.cmd, reply.value, order)
    /\ pc' = to
    /\ UNCHANGED <<argv, connection, proxy, server_version, cli, calls, reply,
                   stderr, exit_status>>

RenderFirst == Render("render", "rendered_once")
RenderSecond == Render("rendered_once", "rendered_twice")

RenderNext ==
    \/ RenderFirst
    \/ RenderSecond

SpecRender == RenderInit /\ [][RenderNext]_vars

\* ---------------------------------------------------------------- claims

CommandMethods ==
    {"delete", "delete_permission", "get_permission", "list", "lookup",
     "set_permission", "set_value"}
IsCommandCall(c) == c.method \in CommandMethods
\* the command-method calls issued so far, in order
MethodCalls == SelectSeq(calls, IsCommandCall)
Count(method) == Cardinality({i \in 1..Len(calls) : calls[i].method = method})
\* the results on standard output: tables and lines, not clap's own text
Results == SelectSeq(stdout, LAMBDA o : o.kind \in {"table", "line"})
\* the command line without its flags
Positionals == SelectSeq(argv, LAMBDA t : t \notin CreateFlags)
FlagGiven == \E i \in 1..Len(argv) : argv[i] \in CreateFlags
Dispatched == pc \in {"await_call", "done"} /\ cli # NoCli

\* C1: once a version other than the expected one has been read, no command
\* method is ever called, whatever the command line; the run ends with the
\* one version-mismatch message and nothing else.
C1_VersionGate ==
    (server_version # NoVersion /\ server_version # 2) =>
        /\ MethodCalls = <<>>
        /\ pc \in {"gate", "done"}
        /\ cli = NoCli
        /\ pc = "done" =>
             /\ stdout = <<>>
             /\ Len(stderr) = 1
             /\ calls = << Op("Connection::session", <<>>),
                           Op("PermissionStoreProxy::new", <<>>),
                           Op("version", <<>>) >>

C1_Witness ==
    /\ pc = "done"
    /\ server_version = 3
    /\ argv = <<"delete", "documents", "doc1", "org.app.A">>
    /\ Parse(argv).kind = "ok"
    /\ stderr # <<>>

\* C2: a Delete with an application argument issues delete_permission(table,
\* id, app) and never delete; without one it issues delete(table, id) and
\* never delete_permission; the arguments are those of the command line.
C2_DeleteDispatch ==
    (cli.cmd = "delete") =>
        /\ pc = "dispatch" => MethodCalls = <<>>
        /\ Dispatched =>
             MethodCalls =
                IF Len(argv) = 4
                THEN << Op("delete_permission", <<argv[2], argv[3], argv[4]>>) >>
                ELSE << Op("delete", <<argv[2], argv[3]>>) >>

C2_Witness ==
    /\ pc = "done"
    /\ cli.cmd = "delete"
    /\ Len(argv) = 4
    /\ reply.status = "ok"
    /\ MethodCalls # <<>>

\* C3: Get, List, Lookup and Set each issue exactly the call of the dispatch
\* table with the arguments of the command line; Set passes create as false
\* unless the flag was given and the permissions unchanged; set_value is
\* never called.
C3_DispatchTable ==
    /\ \A i \in 1..Len(calls) : calls[i].method # "set_value"
    /\ (Dispatched /\ cli.cmd = "get") =>
          MethodCalls = << Op("get_permission", <<argv[2], argv[3], argv[4]>>) >>
    /\ (Dispatched /\ cli.cmd = "list") =>
          MethodCalls = << Op("list", <<argv[2]>>) >>
    /\ (Dispatched /\ cli.cmd = "lookup") =>
          MethodCalls = << Op("lookup", <<argv[2], argv[3]>>) >>
    /\ (Dispatched /\ cli.cmd = "set") =>
          MethodCalls =
             << Op("set_permission",
                   << Positionals[2], FlagGiven, Positionals[3], Positionals[4],
                      SubSeq(Positionals, 5, Len(Positionals)) >>) >>

C3_Witness ==
    /\ pc = "done"
    /\ cli.cmd = "set"
    /\ ~FlagGiven
    /\ Len(Positionals) = 4
    /\ reply.status = "ok"
    /\ MethodCalls # <<>>

\* C4: every failure ends the process with a status other than success, and
\* the success status is produced only when the dispatched call succeeded
\* and its result was rendered.
C4_FailureExitsNonZero ==
    (pc = "done") =>
        /\ stderr # <<>> => exit_status # 0
        /\ exit_status = 0 => (reply.status = "ok" /\ Results # <<>>)

\* C5: results are written to standard output exactly when the dispatched
\* call returned success; when it returned an error nothing is on standard
\* output and exactly one message is on standard error; never both.
C5_NoPartialSuccess ==
    /\ Results # <<>> <=> reply.status = "ok"
    /\ reply.status = "err" => (stdout = <<>> /\ Len(stderr) = 1)
    /\ ~(Results # <<>> /\ stderr # <<>>)
    /\ pc = "await_call" => (stdout = <<>> /\ stderr = <<>>)

C5_Witness ==
    /\ pc = "done"
    /\ reply.status = "err"
    /\ cli.cmd = "lookup"
    /\ Len(stderr) = 1

\* C6: a failed connection, proxy creation or version read ends the run with
\* one message on standard error; no later stage is attempted, the command
\* line is not parsed and no command method is called.
C6_PreDispatchFatal ==
    /\ Len(stderr) > 0 => pc = "done"
    /\ (pc = "done" /\ connection = "none") =>
          /\ calls = << Op("Connection::session", <<>>) >>
          /\ Len(stderr) = 1 /\ stdout = <<>> /\ cli = NoCli
    /\ (pc = "done" /\ connection = "open" /\ ~proxy) =>
          /\ calls = << Op("Connection::session", <<>>),
                        Op("PermissionStoreProxy::new", <<>>) >>
          /\ Len(stderr) = 1 /\ stdout = <<>> /\ cli = NoCli
    /\ (pc = "done" /\ proxy /\ server_version = NoVersion) =>
          /\ calls = << Op("Connection::session", <<>>),
                        Op("PermissionStoreProxy::new", <<>>),
                        Op("version", <<>>) >>
          /\ Len(stderr) = 1 /\ stdout = <<>> /\ cli = NoCli

C6_Witness ==
    /\ pc = "done"
    /\ proxy
    /\ server_version = NoVersion
    /\ Parse(argv).kind = "ok"
    /\ Len(stderr) = 1

\* C7: rendering the same lookup result, resource-ID list or permission list
\* twice gives the same output both times.
C7_RendererIdempotent ==
    (pc = "rendered_twice") =>
        LET h == Len(stdout) \div 2
        IN  SubSeq(stdout, 1, h) = SubSeq(stdout, h + 1, 2 * h)

\* C8: a successful list or get_permission reply is rendered as one
\* single-column table with one row per element, in the returned order,
\* duplicates kept; an empty reply gives a header-only table and is a success.
C8_ListGetMirror ==
    (pc = "done" /\ cli.cmd \in {"list", "get"} /\ reply.status = "ok") =>
        /\ Len(stdout) = 1
        /\ stdout[1].kind = "table"
        /\ stdout[1].header =
              IF cli.cmd = "list" THEN <<"Resource ID">> ELSE <<"Permission">>
        /\ Len(stdout[1].rows) = Len(reply.value)
        /\ \A i \in 1..Len(reply.value) : stdout[1].rows[i] = <<reply.value[i]>>
        /\ stderr = <<>>

C8_Witness ==
    /\ pc = "done"
    /\ cli.cmd = "list"
    /\ reply = Ok(<<"doc2", "doc2">>)
    /\ Len(stdout[1].rows) = Len(reply.value)

\* the comma-joined form of a list, built from the left
CommaJoined(list) ==
    LET F[k \in 0..Len(list)] ==
            IF k = 0 THEN ""
            ELSE IF k = 1 THEN list[1]
            ELSE F[k - 1] \o "," \o list[k]
    IN  F[Len(list)]

\* C9: a successful lookup reply is rendered as a two-column table with one
\* row per application of the mapping, each application once, the
\* permissions cell being the application's list joined by commas in order,
\* followed by the debug form of the associated data as the last line.
C9_LookupRendering ==
    (pc = "done" /\ cli.cmd = "lookup" /\ reply.status = "ok") =>
        LET m == reply.value[1]
            rows == stdout[1].rows
        IN  /\ Len(stdout) = 3
            /\ stdout[1].kind = "table"
            /\ stdout[1].header = <<"AppID", "Permissions">>
            /\ Len(rows) = Cardinality(DOMAIN m)
            /\ \A a \in DOMAIN m :
                 /\ Cardinality({i \in 1..Len(rows) : rows[i][1] = a}) = 1
                 /\ \A i \in 1..Len(rows) :
                       rows[i][1] = a =>
                          /\ rows[i][2] = CommaJoined(m[a])
                          /\ m[a] = <<"read", "write">> => rows[i][2] = "read,write"
            /\ stdout[3].kind = "line"
            /\ stdout[3].text =
                  IF reply.value[2].tag = "U8" THEN "OwnedValue(U8(0))"
                  ELSE "OwnedValue(Bool(true))"

C9_Witness ==
    /\ pc = "done"
    /\ cli.cmd = "lookup"
    /\ reply.status = "ok"
    /\ DOMAIN reply.value[1] = {"org.app.A", "org.app.B"}
    /\ reply.value[1]["org.app.A"] = <<"read">>
    /\ reply.value[1]["org.app.B"] = <<"read", "write">>
    /\ Len(stdout[1].rows) = 2

\* C10: the connection is acquired once, the version is read at most once
\* and before any command method call, at most one command method call is
\* issued (exactly one once a command is dispatched), nothing follows a
\* failed call, and output appears only after the call has returned.
C10_OrderAndCount ==
    /\ Count("Connection::session") = IF pc = "start" THEN 0 ELSE 1
    /\ Count("version") <= 1
    /\ Len(MethodCalls) <= 1
    /\ Dispatched <=> Len(MethodCalls) = 1
    /\ \A i \in 1..Len(calls) :
          IsCommandCall(calls[i]) =>
             /\ i = Len(calls)
             /\ \E j \in 1..(i - 1) : calls[j].method = "version"
    /\ reply.status = "err" => (pc = "done" /\ IsCommandCall(calls[Len(calls)]))
    /\ Results # <<>> => (reply.status = "ok" /\ pc = "done")
    /\ pc = "await_call" => (reply = NoReply /\ stdout = <<>> /\ stderr = <<>>)

C10_Witness ==
    /\ pc = "done"
    /\ reply.status = "err"
    /\ cli.cmd = "set"
    /\ Len(calls) = 4
====
